---------------------------- MODULE Spec2Model ----------------------------
(* Model of the build / test orchestration scripts of sns-kongswap-adaptor  *)
(* (scripts/common.py, scripts/build.py, scripts/test.py).                  *)
(*                                                                          *)
(* The state is the part of the file system the scripts read and write,     *)
(* the environment they consult, and the position of the running command.   *)
(* External programs (cargo, ic-wasm, the HTTP transfer, gzip I/O) are      *)
(* nondeterministic choices over the outcomes they can produce.             *)
EXTENDS Integers, Naturals, Sequences, FiniteSets, TLC

(* ------------------------------ bounds ---------------------------------- *)
\* number of command invocations in one behaviour
MaxRuns == 2
\* largest modification time
MaxTime == 2

(* ------------------------- fixed vocabulary ------------------------------ *)
\* "home" is HOME/sns-kongswap-adaptor, "work" is a working directory elsewhere
Roots == {"home", "work"}

\* keys of canister_mapping, in iteration order
canister_mapping == <<"sns_ledger", "ledger">>

CanisterKeys == {"sns_ledger", "ledger"}

Deps == {"sns_ledger", "ledger", "kong_backend"}

\* source files below kongswap_adaptor/src and the glob that selects them
SrcFiles ==
    {[name |-> "lib", ext |-> "rs"], [name |-> "Cargo", ext |-> "toml"],
     [name |-> "Cargo", ext |-> "lock"]}

IcStates == {"nodir", "noindex", "unreadable", "ok"}

RevStates == {"nokey", "norev", "rev"}

ConfigStates ==
    {"missing", "unreadable", "nodeps", "nokong", "noversion", "nourl", "badtemplate", "ok"}

\* exit codes the cargo test process is observed with
TestCodes == {0, 1, 101}

\* the payload of an archive whose input is not known to the model
NoInput == [f \in SrcFiles |-> -1]

\* a file: its modification time, whether it was written to the end, and for
\* a gzip archive the bytes it was made from and the MTIME field of its header
NoFile == [exists |-> FALSE, mtime |-> 0, whole |-> FALSE, payload |-> NoInput, hdr |-> 0]

File(t, w) == [exists |-> TRUE, mtime |-> t, whole |-> w, payload |-> NoInput, hdr |-> t]

VARIABLES
    ci,            \* GITHUB_ACTIONS is set
    cwd,           \* the directory Path.cwd() names
    homeExists,    \* HOME/sns-kongswap-adaptor exists
    ic,            \* state of IC_DIR and of mainnet-canister-revisions.json
    revisions,     \* per canister key: entry of the revision index
    config,        \* state of config.json
    buildScript,   \* PROJECT_DIR/scripts/build.py exists
    candid,        \* kongswap_adaptor/kongswap-adaptor.did exists
    src,           \* mtime of each source file, -1 when absent
    now,           \* clock that stamps written files
    cacheDir,      \* PROJECT_DIR/ic-artifacts exists
    cache,         \* per dependency: "absent", "partial" or "complete"
    wasmDir,       \* HOME/.../target/wasm32-unknown-unknown/release exists
    raw,           \* kongswap-adaptor-canister.wasm exists
    augmented,     \* augmented-kongswap-adaptor-canister.wasm exists
    published,     \* per root: kongswap-adaptor-canister.wasm.gz
    cmd,           \* running command: "none", "test", "build"
    args,          \* parsed arguments of the test command
    tpc,           \* position of test.py main
    bpc,           \* position of build.py main
    xfer,          \* a urlretrieve transfer is in flight
    texit,         \* exit status of the test command, -1 while running
    bexit,         \* exit status of the build command, -1 while running
    err,           \* error kind the test command reported
    berr,          \* error kind the build command reported
    testCode,      \* exit code of the cargo test process, -1 when not invoked
    needed,        \* result of needs_rebuild in this run, "na" when not called
    requests,      \* dependencies a network request was issued for in this run
    log,           \* steps the test command has entered in this run, in order
    provLog,       \* outcome of every get_test_environment call so far
    fetches,       \* per dependency: network requests over all runs
    stages,        \* stages the build has started in this run, in order
    pub0,          \* published file at HOME when the build started
    aug0,          \* whether the augmented file existed when the build started
    results,       \* outcome of every stage in stages, "ok" or "fail"
    peer,          \* a second test invocation running at the same time
    runs           \* commands started so far

envVars == <<ci, cwd, homeExists, ic, revisions, config, buildScript, candid, src>>

fsVars == <<cacheDir, cache, wasmDir, raw, augmented, published, now>>

buildVars == <<bpc, bexit, berr, stages, results, pub0, aug0>>

testVars == <<args, tpc, xfer, texit, err, testCode, needed, requests, log>>

vars == <<envVars, fsVars, buildVars, testVars, cmd, fetches, provLog, runs, peer>>

(* ----------------------------- common.py -------------------------------- *)
\* get_project_paths: the project root of the detected layout
PROJECT_DIR == IF ci THEN cwd ELSE "home"

\* get_project_paths raises in CI when IC_DIR cannot be listed
get_project_paths_raises == ci /\ ic = "nodir"

DirExists(r) == IF r = "home" THEN homeExists ELSE TRUE

validate_project_structure == DirExists(PROJECT_DIR)

\* a loader that does not look for the url_template key
load_config_version_only ==
    CASE config = "missing"    -> "ConfigNotFound"
      [] config = "unreadable" -> "ConfigUnreadable"
      [] config = "nodeps"     -> "MissingDependencies"
      [] config = "nokong"     -> "MissingKongBackend"
      [] config = "noversion"  -> "MissingVersion"
      [] OTHER                 -> "ok"

\* load_config, lines 189-222: "ok" or the first missing element
load_config ==
    CASE config = "missing"    -> "ConfigNotFound"
      [] config = "unreadable" -> "ConfigUnreadable"
      [] config = "nodeps"     -> "MissingDependencies"
      [] config = "nokong"     -> "MissingKongBackend"
      [] config = "noversion"  -> "MissingVersion"
      [] config = "nourl"      -> "MissingUrlTemplate"
      [] OTHER                 -> "ok"

(* ------------------------------ test.py --------------------------------- *)
\* source_dir.rglob(pattern): the existing files the pattern selects
rglob(s, pattern) ==
    {f \in SrcFiles : /\ s[f] # -1
                      /\ \/ pattern = "*.rs" /\ f.ext = "rs"
                         \/ pattern = "Cargo.toml" /\ f.name = "Cargo" /\ f.ext = "toml"}

\* needs_rebuild with a non-strict comparison of the modification times
needs_rebuild_nonstrict(s, target) ==
    IF ~target.exists THEN TRUE
    ELSE IF \E f \in rglob(s, "*.rs") : s[f] >= target.mtime THEN TRUE
    ELSE IF \E f \in rglob(s, "Cargo.toml") : s[f] >= target.mtime THEN TRUE
    ELSE FALSE

\* needs_rebuild(source_dir, target_file)
needs_rebuild(s, target) ==
    IF ~target.exists THEN TRUE
    ELSE IF \E f \in rglob(s, "*.rs") : s[f] > target.mtime THEN TRUE
    ELSE IF \E f \in rglob(s, "Cargo.toml") : s[f] > target.mtime THEN TRUE
    ELSE FALSE

\* the build condition without the force flag
should_build_stale_only(force, stale) == stale

\* main, line 60: the condition under which the build script is run
should_build(force, stale) == force \/ stale

\* an exit status that passes the exit code of cargo test through
exit_status_propagated(c) == c

\* main, lines 92-96: the exit status for the exit code of cargo test
exit_status(c) == IF c = 0 THEN 0 ELSE 1

\* run_command without check=True: every exit code is accepted
run_command_ok_unchecked(code) == TRUE

\* common.run_command, lines 13-23: check=True accepts exit code 0 only
run_command_ok(code) == code = 0

NoArgs == [unit_only |-> FALSE, force_rebuild |-> FALSE]

NoError == [kind |-> "none", dep |-> "none"]

\* the second invocation before it is started
NoPeer ==
    [pc |-> "idle", xfer |-> FALSE, requests |-> {}, skipped |-> {}, torn |-> {},
     testCode |-> -1, exit |-> -1]

\* the run state of a process that has not started
ResetTest ==
    /\ args' = NoArgs
    /\ tpc' = "idle"
    /\ xfer' = FALSE
    /\ texit' = -1
    /\ err' = NoError
    /\ testCode' = -1
    /\ needed' = "na"
    /\ requests' = {}
    /\ log' = <<>>

ResetBuild ==
    /\ bpc' = "idle"
    /\ bexit' = -1
    /\ berr' = "none"
    /\ stages' = <<>>
    /\ results' = <<>>
    /\ pub0' = NoFile
    /\ aug0' = FALSE

\* sys.exit(1) of the test command with the reported error kind
TestFail(kind, d) ==
    /\ tpc' = "done"
    /\ texit' = 1
    /\ err' = [kind |-> kind, dep |-> d]

\* main, lines 43-47: parse arguments, resolve and validate the paths
TestStart(unit, force) ==
    /\ cmd = "none"
    /\ runs < MaxRuns
    /\ cmd' = "test"
    /\ runs' = runs + 1
    /\ args' = [unit_only |-> unit, force_rebuild |-> force]
    /\ IF get_project_paths_raises THEN TestFail("IcDirListing", "none")
       ELSE IF ~validate_project_structure THEN TestFail("NoProjectDir", "none")
       ELSE /\ tpc' = IF unit THEN "exec" ELSE "check"
            /\ UNCHANGED <<texit, err>>
    /\ UNCHANGED <<peer, envVars, fsVars, buildVars, xfer, testCode, needed, requests, log,
                   fetches, provLog>>

\* main, lines 50-66: the rebuild check; a required build starts build.py
TestRebuildCheck ==
    /\ cmd = "test"
    /\ tpc = "check"
    /\ log' = Append(log, "check")
    /\ IF ~buildScript
       THEN /\ TestFail("NoBuildScript", "none")
            /\ UNCHANGED <<needed, bpc>>
       ELSE LET stale == needs_rebuild(src, published[PROJECT_DIR])
                build == should_build(args.force_rebuild, stale) IN
            /\ needed' = IF args.force_rebuild THEN "na" ELSE IF stale THEN "yes" ELSE "no"
            /\ tpc' = IF build THEN "build" ELSE "mainnet"
            /\ bpc' = IF build THEN "start" ELSE bpc
            /\ UNCHANGED <<texit, err>>
    /\ UNCHANGED <<peer, envVars, fsVars, bexit, berr, stages, results, pub0, aug0, args, xfer, testCode,
                   requests, cmd, fetches, provLog, runs>>

\* common.run_command, lines 12-23: the build script has exited
TestBuildReturn ==
    /\ cmd = "test"
    /\ tpc = "build"
    /\ bpc = "done"
    /\ log' = Append(log, "build")
    /\ IF ~run_command_ok(bexit)
       THEN TestFail("BuildFailed", "none")
       ELSE /\ tpc' = "mainnet"
            /\ UNCHANGED <<texit, err>>
    /\ UNCHANGED <<peer, envVars, fsVars, buildVars, args, xfer, testCode, needed, requests,
                   cmd, fetches, provLog, runs>>

(* ------------------------- common.py: provisioning ----------------------- *)
\* the step after key k of canister_mapping
AfterCanister(k) == IF k = canister_mapping[1] THEN canister_mapping[2] ELSE "kong_backend"

\* a provisioner that never consults the cache
dest_exists_ignored(d) == FALSE

\* dest_path.exists(), lines 154 and 237
dest_exists(d) == cache[d] # "absent"

\* canister_key not in revisions, line 159
key_missing(k) == revisions[k] = "nokey"

\* a loop that does not check the revision field
rev_missing_unchecked(k) == FALSE

\* not revision, lines 167-168
rev_missing(k) == revisions[k] = "norev"

\* sys.exit(1) inside get_test_environment
ProvFail(kind, d) ==
    /\ TestFail(kind, d)
    /\ provLog' = Append(provLog, "fail")

\* download_mainnet_canisters, lines 111-134: reference directory, index, mkdir
download_mainnet_canisters ==
    /\ cmd = "test"
    /\ tpc = "mainnet"
    /\ log' = Append(log, "mainnet")
    /\ IF ic = "nodir" THEN ProvFail("NoIcDir", "none") /\ UNCHANGED cacheDir
       ELSE IF ic = "noindex" THEN ProvFail("NoRevisionsFile", "none") /\ UNCHANGED cacheDir
       ELSE IF ic = "unreadable"
       THEN ProvFail("RevisionsUnreadable", "none") /\ UNCHANGED cacheDir
       ELSE /\ cacheDir' = TRUE
            /\ tpc' = canister_mapping[1]
            /\ UNCHANGED <<texit, err, provLog>>
    /\ UNCHANGED <<peer, envVars, cache, wasmDir, raw, augmented, published, now, buildVars,
                   args, xfer, testCode, needed, requests, cmd, fetches, runs>>

\* urllib.request.urlretrieve, first half: the request; the destination is
\* opened for writing once the response has arrived
urlretrieve_open(d) ==
    /\ requests' = requests \cup {d}
    /\ fetches' = [fetches EXCEPT ![d] = @ + 1]
    /\ \E o \in {"refused", "opened"} :
         IF o = "refused"
         THEN /\ ProvFail("DownloadError", d)
              /\ UNCHANGED <<cache, xfer>>
         ELSE /\ cache' = [cache EXCEPT ![d] = "partial"]
              /\ xfer' = TRUE
              /\ UNCHANGED <<tpc, texit, err, provLog>>

\* download_mainnet_canisters, lines 150-180: one iteration of the loop
EnsureCanister(k) ==
    /\ cmd = "test"
    /\ tpc = k
    /\ ~xfer
    /\ log' = Append(log, k)
    /\ IF dest_exists(k)
       THEN /\ tpc' = AfterCanister(k)
            /\ UNCHANGED <<texit, err, cache, xfer, requests, fetches, provLog>>
       ELSE IF key_missing(k)
       THEN /\ ProvFail("NotInRevisions", k)
            /\ UNCHANGED <<cache, xfer, requests, fetches>>
       ELSE IF rev_missing(k)
       THEN /\ ProvFail("NoRev", k)
            /\ UNCHANGED <<cache, xfer, requests, fetches>>
       ELSE urlretrieve_open(k)
    /\ UNCHANGED <<peer, envVars, cacheDir, wasmDir, raw, augmented, published, now, buildVars,
                   args, testCode, needed, cmd, runs>>

\* download_kong_backend, lines 228-249
download_kong_backend ==
    /\ cmd = "test"
    /\ tpc = "kong_backend"
    /\ ~xfer
    /\ log' = Append(log, "kong_backend")
    /\ IF load_config # "ok"
       THEN /\ ProvFail(load_config, "kong_backend")
            /\ UNCHANGED <<cacheDir, cache, xfer, requests, fetches>>
       ELSE /\ cacheDir' = TRUE
            /\ IF dest_exists("kong_backend")
               THEN /\ tpc' = "exec"
                    /\ provLog' = Append(provLog, "ok")
                    /\ UNCHANGED <<texit, err, cache, xfer, requests, fetches>>
               ELSE IF config = "badtemplate"
               THEN /\ ProvFail("TemplateFormat", "kong_backend")
                    /\ UNCHANGED <<cache, xfer, requests, fetches>>
               ELSE urlretrieve_open("kong_backend")
    /\ UNCHANGED <<peer, envVars, wasmDir, raw, augmented, published, now, buildVars,
                   args, testCode, needed, cmd, runs>>

\* urllib.request.urlretrieve, second half: the body is copied into the
\* destination; a short body raises and leaves what was written
urlretrieve_copy(d) ==
    /\ cmd = "test"
    /\ tpc = d
    /\ xfer
    /\ xfer' = FALSE
    /\ \E o \in {"ok", "truncated"} :
         IF o = "ok"
         THEN /\ cache' = [cache EXCEPT ![d] = "complete"]
              /\ tpc' = IF d = "kong_backend" THEN "exec" ELSE AfterCanister(d)
              /\ provLog' = IF d = "kong_backend" THEN Append(provLog, "ok") ELSE provLog
              /\ UNCHANGED <<texit, err>>
         ELSE /\ ProvFail("DownloadError", d)
              /\ UNCHANGED cache
    /\ UNCHANGED <<peer, envVars, cacheDir, wasmDir, raw, augmented, published, now, buildVars,
                   args, testCode, needed, requests, log, cmd, fetches, runs>>

\* main, lines 69-96: run cargo test and turn its exit code into the exit status
TestExec ==
    /\ cmd = "test"
    /\ tpc = "exec"
    /\ log' = Append(log, "exec")
    /\ \E c \in TestCodes :
         /\ testCode' = c
         /\ texit' = exit_status(c)
    /\ tpc' = "done"
    /\ UNCHANGED <<peer, envVars, fsVars, buildVars, args, xfer, err, needed, requests,
                   cmd, fetches, provLog, runs>>

(* ------------------------------ build.py -------------------------------- *)
\* an except branch that reports a failed compression and returns normally
exit_on_swallowed(kind) == IF kind = "CompressionFailure" THEN 0 ELSE 1

\* sys.exit(1), lines 27, 51, 67, 71, 80, 109: the status for every error kind
exit_on(kind) == 1

\* sys.exit of the build command with the reported error kind
BuildFail(kind) ==
    /\ bpc' = "done"
    /\ bexit' = exit_on(kind)
    /\ berr' = kind

\* build.run_command without check=True: every exit code is accepted
build_run_command_ok_unchecked(code) == TRUE

\* build.run_command, lines 16-27: check=True accepts exit code 0 only
build_run_command_ok(code) == code = 0

\* the exit code of an external process with outcome o
ExitCodeOf(o) == IF o = "fail" THEN 1 ELSE 0

\* the record of a stage that was started and how it ended
Ran(stage, outcome) ==
    /\ stages' = Append(stages, stage)
    /\ results' = Append(results, outcome)

\* the build command is started from the shell
BuildCommand ==
    /\ cmd = "none"
    /\ runs < MaxRuns
    /\ cmd' = "build"
    /\ runs' = runs + 1
    /\ bpc' = "start"
    /\ UNCHANGED <<peer, envVars, fsVars, bexit, berr, stages, results, pub0, aug0, testVars,
                   fetches, provLog>>

\* main, lines 42-51: the paths below HOME and the project directory check
BuildValidateProject ==
    /\ bpc = "start"
    /\ pub0' = published["home"]
    /\ aug0' = augmented
    /\ IF ~homeExists
       THEN BuildFail("NoProjectDir")
       ELSE /\ bpc' = "compile"
            /\ UNCHANGED <<bexit, berr>>
    /\ UNCHANGED <<peer, envVars, fsVars, stages, results, testVars, cmd, fetches, provLog, runs>>

\* main, lines 54-62: cargo build; its output directory is the one cargo is
\* configured with, which need not be WASM_DIR
BuildCompile ==
    /\ bpc = "compile"
    /\ \E o \in {"fail", "ok", "elsewhere"} :
         /\ Ran("compile", IF o = "fail" THEN "fail" ELSE "ok")
         /\ wasmDir' = IF o = "ok" THEN TRUE ELSE wasmDir
         /\ raw' = IF o = "ok" THEN TRUE ELSE raw
         /\ IF ~build_run_command_ok(ExitCodeOf(o))
            THEN BuildFail("ProcessFailure")
            ELSE /\ bpc' = "validate"
                 /\ UNCHANGED <<bexit, berr>>
    /\ UNCHANGED <<peer, envVars, cacheDir, cache, augmented, published, now, pub0, aug0, testVars,
                   cmd, fetches, provLog, runs>>

\* the existence checks in another order: interface file before directory
outputs_missing_reordered ==
    IF ~candid THEN "NoCandid"
    ELSE IF ~wasmDir THEN "NoWasmDir"
    ELSE IF ~raw THEN "NoRawWasm"
    ELSE "none"

\* main, lines 64-80: the first output found missing after the build
outputs_missing ==
    IF ~wasmDir THEN "NoWasmDir"
    ELSE IF ~candid THEN "NoCandid"
    ELSE IF ~raw THEN "NoRawWasm"
    ELSE "none"

\* main, lines 64-80: the three existence checks after the build
BuildValidateOutputs ==
    /\ bpc = "validate"
    /\ Ran("validate", IF outputs_missing = "none" THEN "ok" ELSE "fail")
    /\ IF outputs_missing # "none"
       THEN BuildFail(outputs_missing)
       ELSE /\ bpc' = "metadata"
            /\ UNCHANGED <<bexit, berr>>
    /\ UNCHANGED <<peer, envVars, fsVars, pub0, aug0, testVars, cmd, fetches, provLog, runs>>

\* main, lines 83-89: ic-wasm metadata writes the augmented file
BuildMetadata ==
    /\ bpc = "metadata"
    /\ \E o \in {"fail", "ok"} :
         /\ Ran("metadata", o)
         /\ augmented' = IF o = "ok" THEN TRUE ELSE augmented
         /\ IF ~build_run_command_ok(ExitCodeOf(o))
            THEN BuildFail("ProcessFailure")
            ELSE /\ bpc' = "optimize"
                 /\ UNCHANGED <<bexit, berr>>
    /\ UNCHANGED <<peer, envVars, cacheDir, cache, wasmDir, raw, published, now, pub0, aug0, testVars,
                   cmd, fetches, provLog, runs>>

\* main, lines 91-96: ic-wasm optimize rewrites the augmented file in place
BuildOptimize ==
    /\ bpc = "optimize"
    /\ \E o \in {"fail", "ok"} :
         /\ Ran("optimize", o)
         /\ IF ~build_run_command_ok(ExitCodeOf(o))
            THEN BuildFail("ProcessFailure")
            ELSE /\ bpc' = "compress"
                 /\ UNCHANGED <<bexit, berr>>
    /\ UNCHANGED <<peer, envVars, fsVars, pub0, aug0, testVars, cmd, fetches, provLog, runs>>

\* compress_file(input_path, output_path): what is at output_path afterwards,
\* for input bytes in, at time t. gzip.open(output_path, 'wb') creates or
\* truncates the file before any byte is copied, so a failure while copying
\* leaves a file that is not whole; GzipFile stamps the header with the time.
compress_file(o, old, t, in) ==
    CASE o = "ok"         -> [exists |-> TRUE, mtime |-> t, whole |-> TRUE,
                              payload |-> in, hdr |-> t]
      [] o = "write_fail" -> [exists |-> TRUE, mtime |-> t, whole |-> FALSE,
                              payload |-> in, hdr |-> t]
      [] OTHER            -> old

\* main, lines 98-99 and 107-109: compress into the published path; the bytes
\* of the augmented file are those the tools derive from the sources
BuildCompress ==
    /\ bpc = "compress"
    /\ \E o \in {"ok", "open_fail", "write_fail"} :
         /\ Ran("compress", IF o = "ok" THEN "ok" ELSE "fail")
         /\ published' = [published EXCEPT !["home"] = compress_file(o, @, now, src)]
         /\ IF o = "ok"
            THEN /\ bpc' = "cleanup"
                 /\ UNCHANGED <<bexit, berr>>
            ELSE BuildFail("CompressionFailure")
    /\ UNCHANGED <<peer, envVars, cacheDir, cache, wasmDir, raw, augmented, now, pub0, aug0, testVars,
                   cmd, fetches, provLog, runs>>

\* a cleanup that leaves the intermediate file in place
unlink_skipped(o, present) == present

\* augmented_wasm.unlink(), line 102: whether the file exists afterwards
unlink(o, present) == IF o = "ok" THEN FALSE ELSE present

\* main, lines 101-109: unlink the augmented file and report
BuildCleanup ==
    /\ bpc = "cleanup"
    /\ \E o \in {"ok", "fail"} :
         /\ Ran("cleanup", o)
         /\ augmented' = unlink(o, augmented)
         /\ IF o = "ok"
            THEN /\ bpc' = "done"
                 /\ bexit' = 0
                 /\ UNCHANGED berr
            ELSE BuildFail("CleanupFailure")
    /\ UNCHANGED <<peer, envVars, cacheDir, cache, wasmDir, raw, published, now, pub0, aug0, testVars,
                   cmd, fetches, provLog, runs>>

(* ------------------- a second, concurrent test invocation ---------------- *)
\* sys.exit(1) of the second invocation
PeerFail == peer' = [peer EXCEPT !.pc = "done", !.exit = 1, !.xfer = FALSE]

\* the step after dependency d in get_test_environment
AfterDep(d) == IF d = "kong_backend" THEN "exec" ELSE AfterCanister(d)

\* test.py main, lines 43-66, of an invocation without flags whose paths
\* resolve and whose rebuild check finds the published artifact fresh
PeerStart ==
    /\ peer.pc = "idle"
    /\ runs < MaxRuns
    /\ ~get_project_paths_raises
    /\ validate_project_structure
    /\ buildScript
    /\ ~needs_rebuild(src, published[PROJECT_DIR])
    /\ runs' = runs + 1
    /\ peer' = [peer EXCEPT !.pc = "mainnet"]
    /\ UNCHANGED <<envVars, fsVars, buildVars, testVars, cmd, fetches, provLog>>

\* download_mainnet_canisters, lines 111-134, in the second invocation
PeerProvision ==
    /\ peer.pc = "mainnet"
    /\ IF ic # "ok"
       THEN PeerFail /\ UNCHANGED cacheDir
       ELSE /\ cacheDir' = TRUE
            /\ peer' = [peer EXCEPT !.pc = canister_mapping[1]]
    /\ UNCHANGED <<envVars, cache, wasmDir, raw, augmented, published, now, buildVars,
                   testVars, cmd, fetches, provLog, runs>>

\* lines 150-180 and 228-249 in the second invocation: the existence test
\* looks at the same destination the first invocation writes to; torn records
\* the files skipped while the first invocation's transfer was in flight
PeerEnsure(d) ==
    /\ peer.pc = d
    /\ ~peer.xfer
    /\ cacheDir' = (cacheDir \/ (d = "kong_backend" /\ load_config = "ok"))
    /\ IF d = "kong_backend" /\ load_config # "ok"
       THEN PeerFail /\ UNCHANGED <<cache, fetches>>
       ELSE IF dest_exists(d)
       THEN /\ peer' = [peer EXCEPT !.pc = AfterDep(d),
                                    !.skipped = @ \cup {d},
                                    !.torn = IF cmd = "test" /\ xfer /\ tpc = d
                                             THEN @ \cup {d} ELSE @]
            /\ UNCHANGED <<cache, fetches>>
       ELSE IF d \in CanisterKeys /\ (key_missing(d) \/ rev_missing(d))
       THEN PeerFail /\ UNCHANGED <<cache, fetches>>
       ELSE IF d = "kong_backend" /\ config = "badtemplate"
       THEN PeerFail /\ UNCHANGED <<cache, fetches>>
       ELSE /\ fetches' = [fetches EXCEPT ![d] = @ + 1]
            /\ \E o \in {"refused", "opened"} :
                 IF o = "refused"
                 THEN /\ peer' = [peer EXCEPT !.pc = "done", !.exit = 1,
                                              !.requests = @ \cup {d}]
                      /\ UNCHANGED cache
                 ELSE /\ peer' = [peer EXCEPT !.xfer = TRUE, !.requests = @ \cup {d}]
                      /\ cache' = [cache EXCEPT ![d] = "partial"]
    /\ UNCHANGED <<envVars, wasmDir, raw, augmented, published, now, buildVars,
                   testVars, cmd, provLog, runs>>

\* urlretrieve, second half, in the second invocation
PeerCopy(d) ==
    /\ peer.pc = d
    /\ peer.xfer
    /\ \E o \in {"ok", "truncated"} :
         IF o = "ok"
         THEN /\ cache' = [cache EXCEPT ![d] = "complete"]
              /\ peer' = [peer EXCEPT !.pc = AfterDep(d), !.xfer = FALSE]
         ELSE /\ PeerFail
              /\ UNCHANGED cache
    /\ UNCHANGED <<envVars, cacheDir, wasmDir, raw, augmented, published, now, buildVars,
                   testVars, cmd, fetches, provLog, runs>>

\* test.py main, lines 69-96, in the second invocation
PeerExec ==
    /\ peer.pc = "exec"
    /\ \E c \in TestCodes :
         peer' = [peer EXCEPT !.pc = "done", !.testCode = c, !.exit = exit_status(c)]
    /\ UNCHANGED <<envVars, fsVars, buildVars, testVars, cmd, fetches, provLog, runs>>

\* the process of the second invocation is gone
PeerFinish ==
    /\ peer.pc = "done"
    /\ peer' = NoPeer
    /\ UNCHANGED <<envVars, fsVars, buildVars, testVars, cmd, fetches, provLog, runs>>

(* --------------------------- the environment ----------------------------- *)
\* the process of the finished command is gone
Finish ==
    /\ \/ cmd = "test" /\ tpc = "done"
       \/ cmd = "build" /\ bpc = "done"
    /\ cmd' = "none"
    /\ ResetTest
    /\ ResetBuild
    /\ UNCHANGED <<peer, envVars, fsVars, fetches, provLog, runs>>

\* a developer saves a source file before an invocation
Edit(f) ==
    /\ cmd = "none"
    /\ runs < MaxRuns
    /\ now < MaxTime
    /\ src[f] # -1
    /\ now' = now + 1
    /\ src' = [src EXCEPT ![f] = now + 1]
    /\ UNCHANGED <<peer, ci, cwd, homeExists, ic, revisions, config, buildScript, candid,
                   cacheDir, cache, wasmDir, raw, augmented, published,
                   buildVars, testVars, cmd, fetches, provLog, runs>>

\* time passes between two invocations
Tick ==
    /\ cmd = "none"
    /\ 0 < runs
    /\ runs < MaxRuns
    /\ now < MaxTime
    /\ now' = now + 1
    /\ UNCHANGED <<peer, envVars, cacheDir, cache, wasmDir, raw, augmented, published,
                   buildVars, testVars, cmd, fetches, provLog, runs>>

(* --------------------------- specification ------------------------------- *)
\* the layouts get_project_paths distinguishes
Layouts == {<<FALSE, "home">>, <<TRUE, "home">>, <<TRUE, "work">>}

InitRun ==
    /\ cmd = "none"
    /\ args = NoArgs
    /\ tpc = "idle"
    /\ xfer = FALSE
    /\ texit = -1
    /\ err = NoError
    /\ testCode = -1
    /\ needed = "na"
    /\ requests = {}
    /\ log = <<>>
    /\ provLog = <<>>
    /\ bpc = "idle"
    /\ bexit = -1
    /\ berr = "none"
    /\ stages = <<>>
    /\ results = <<>>
    /\ pub0 = NoFile
    /\ aug0 = FALSE
    /\ fetches = [d \in Deps |-> 0]
    /\ runs = 0
    /\ peer = NoPeer

\* every entry of the revision index carries a revision
GoodRevisions == [k \in CanisterKeys |-> "rev"]

\* a fresh or previously built checkout: the cache is empty, and at most one
\* of the two provisioning inputs (reference repository, manifest) is faulty
Init ==
    /\ InitRun
    /\ \E l \in Layouts : ci = l[1] /\ cwd = l[2]
    /\ homeExists \in BOOLEAN
    /\ (ci /\ cwd = "home") => homeExists
    /\ buildScript \in BOOLEAN
    /\ candid \in BOOLEAN
    /\ \/ /\ ic \in IcStates
          /\ revisions \in [CanisterKeys -> RevStates]
          /\ ic # "ok" => revisions = GoodRevisions
          /\ config = "ok"
       \/ /\ ic = "ok"
          /\ revisions = GoodRevisions
          /\ config \in ConfigStates \ {"ok"}
    /\ src = [f \in SrcFiles |-> 1]
    /\ now = 1
    /\ cacheDir = FALSE
    /\ cache = [d \in Deps |-> "absent"]
    /\ \E p \in {NoFile, File(0, TRUE), File(1, TRUE)} :
         published = [r \in Roots |-> IF r = PROJECT_DIR /\ DirExists(r) THEN p ELSE NoFile]
    /\ wasmDir = published["home"].exists
    /\ raw = FALSE
    /\ augmented = FALSE

\* a built checkout on a workstation with any state of the cache, of the
\* reference repository and of the manifest
InitProv ==
    /\ InitRun
    /\ ci = FALSE
    /\ cwd = "home"
    /\ homeExists = TRUE
    /\ buildScript = TRUE
    /\ candid = TRUE
    /\ ic \in IcStates
    /\ revisions \in [CanisterKeys -> RevStates]
    /\ ic # "ok" => revisions = GoodRevisions
    /\ config \in ConfigStates
    /\ src = [f \in SrcFiles |-> 1]
    /\ now = 1
    /\ cache \in [Deps -> {"absent", "complete"}]
    /\ cacheDir = (\E d \in Deps : cache[d] # "absent")
    /\ published = [r \in Roots |-> IF r = "home" THEN File(1, TRUE) ELSE NoFile]
    /\ wasmDir = TRUE
    /\ raw = TRUE
    /\ augmented = FALSE

\* a workstation or runner whose environment is sound, with any source tree
\* and any published artifact written up to now
InitRebuild ==
    /\ InitRun
    /\ \E l \in Layouts : ci = l[1] /\ cwd = l[2]
    /\ homeExists = TRUE
    /\ buildScript = TRUE
    /\ candid = TRUE
    /\ ic = "ok"
    /\ revisions = GoodRevisions
    /\ config = "ok"
    /\ now = MaxTime - 1
    /\ src \in [SrcFiles -> -1 .. now]
    /\ cacheDir = FALSE
    /\ cache = [d \in Deps |-> "absent"]
    /\ \E p \in {NoFile} \cup {File(t, TRUE) : t \in 0 .. now} :
         published = [r \in Roots |-> IF r = PROJECT_DIR THEN p ELSE NoFile]
    /\ wasmDir = published["home"].exists
    /\ raw = FALSE
    /\ augmented = FALSE

Next ==
    \/ \E unit \in BOOLEAN, force \in BOOLEAN : TestStart(unit, force)
    \/ TestRebuildCheck
    \/ TestBuildReturn
    \/ download_mainnet_canisters
    \/ \E k \in CanisterKeys : EnsureCanister(k)
    \/ download_kong_backend
    \/ \E d \in Deps : urlretrieve_copy(d)
    \/ TestExec
    \/ BuildCommand
    \/ BuildValidateProject
    \/ BuildCompile
    \/ BuildValidateOutputs
    \/ BuildMetadata
    \/ BuildOptimize
    \/ BuildCompress
    \/ BuildCleanup
    \/ Finish
    \/ \E f \in SrcFiles : Edit(f)
    \/ Tick

Spec == Init /\ [][Next]_vars

SpecProv == InitProv /\ [][Next]_vars

SpecRebuild == InitRebuild /\ [][Next]_vars

\* a built checkout on a workstation with a sound environment and an empty
\* cache, tested by two invocations at the same time
InitConc ==
    /\ InitRun
    /\ ci = FALSE
    /\ cwd = "home"
    /\ homeExists = TRUE
    /\ buildScript = TRUE
    /\ candid = TRUE
    /\ ic = "ok"
    /\ revisions = GoodRevisions
    /\ config = "ok"
    /\ src = [f \in SrcFiles |-> 1]
    /\ now = 1
    /\ cacheDir = FALSE
    /\ cache = [d \in Deps |-> "absent"]
    /\ published = [r \in Roots |-> IF r = "home" THEN File(1, TRUE) ELSE NoFile]
    /\ wasmDir = TRUE
    /\ raw = TRUE
    /\ augmented = FALSE

NextConc ==
    \/ Next
    \/ PeerStart
    \/ PeerProvision
    \/ \E d \in Deps : PeerEnsure(d)
    \/ \E d \in Deps : PeerCopy(d)
    \/ PeerExec
    \/ PeerFinish

SpecConc == InitConc /\ [][NextConc]_vars

(* ------------------------------ properties ------------------------------- *)
InLog(x) == \E i \in 1 .. Len(log) : log[i] = x

\* the test command has just taken the rebuild decision: nothing has been
\* written since needs_rebuild looked at the published artifact
JustDecided ==
    /\ cmd = "test"
    /\ log = <<"check">>
    /\ tpc \in {"build", "mainnet"}
    /\ bpc \in {"idle", "start"}

Provisioning == cmd = "test" /\ tpc \in {"mainnet", "sns_ledger", "ledger", "kong_backend"}

\* C1 as stated: whenever cargo test was invoked and exited with code c, the
\* test command exits with that same code c, zero or not.
C1_ExitMirrorsTestProcess ==
    (tpc = "done" /\ testCode # -1) => texit = testCode

\* C1 amended: the test command exits 0 when cargo test exits 0 and exits 1
\* for every non-zero exit code of cargo test.
C1_ExitZeroOrOne ==
    (tpc = "done" /\ testCode # -1) =>
        /\ testCode = 0 => texit = 0
        /\ testCode # 0 => texit = 1

C1_Witness == tpc = "done" /\ testCode = 101 /\ texit = 1

\* C2: starting from an empty cache, once the first provisioning call has
\* succeeded every dependency has been fetched exactly once over all calls,
\* its file is in the cache, and every later call succeeds without a request.
C2_ProvisioningIdempotent ==
    (provLog # <<>> /\ provLog[1] = "ok") =>
        /\ \A d \in Deps : fetches[d] = 1 /\ cache[d] = "complete"
        /\ \A i \in 1 .. Len(provLog) : provLog[i] = "ok"
        /\ Provisioning => requests = {}
        /\ Len(provLog) >= 2 => requests = {}

C2_Witness ==
    /\ provLog = <<"ok", "ok">>
    /\ requests = {}
    /\ \A d \in Deps : fetches[d] = 1

\* C3 as stated: a dependency whose cache file exists is provisioned
\* successfully whatever the state of the reference repository, the revision
\* index or the manifest, so no provisioning error is ever raised on behalf
\* of a dependency that is in the cache.
C3_CachedFileSatisfies ==
    tpc = "done" =>
        /\ err.kind \in {"NoIcDir", "NoRevisionsFile", "RevisionsUnreadable"}
              => \A k \in CanisterKeys : cache[k] = "absent"
        /\ err.kind \in {"NotInRevisions", "NoRev"} => cache[err.dep] = "absent"
        /\ err.kind \in {"ConfigNotFound", "ConfigUnreadable", "MissingDependencies",
                         "MissingKongBackend", "MissingVersion", "MissingUrlTemplate"}
              => cache["kong_backend"] = "absent"

\* C4 as stated: between invocations every file present at a cache
\* destination holds the complete content of a transfer that succeeded.
C4_PresentFileIsComplete ==
    cmd = "none" => \A d \in Deps : cache[d] \in {"absent", "complete"}

\* C5 as stated: a build that fails at compile, output validation, metadata
\* injection, optimization or compression leaves the published file as it
\* was, so a rebuild that was required before the run is still required.
C5_FailedBuildKeepsPublished ==
    (bpc = "done" /\ bexit # 0 /\ berr # "CleanupFailure") =>
        /\ published["home"] = pub0
        /\ needs_rebuild(src, pub0) => needs_rebuild(src, published["home"])

\* the index is readable and the loop over canister_mapping was entered
LoopEntered == ic = "ok" /\ InLog("mainnet")

\* C6 as stated: a finished provisioning run with an uncached pinned
\* dependency whose index entry has no revision failed with the error naming
\* that dependency and issued no network request at all.
C6_NoRequestOnMissingRev ==
    \A k \in CanisterKeys :
        (tpc = "done" /\ LoopEntered /\ revisions[k] = "norev" /\ cache[k] = "absent") =>
            /\ err = [kind |-> "NoRev", dep |-> k]
            /\ requests = {}

\* C6 amended: such a run exits 1 without invoking the tests and without a
\* request for that dependency or for one processed after it; for sns_ledger
\* no request is made and the error names it; for ledger only sns_ledger may
\* have been requested, and the error names ledger unless sns_ledger failed.
C6_NoRequestFromMissingRevOn ==
    \A k \in CanisterKeys :
        (tpc = "done" /\ LoopEntered /\ revisions[k] = "norev" /\ cache[k] = "absent") =>
            /\ texit = 1
            /\ testCode = -1
            /\ k \notin requests
            /\ "kong_backend" \notin requests
            /\ k = "sns_ledger" => err = [kind |-> "NoRev", dep |-> k] /\ requests = {}
            /\ k = "ledger" =>
                  /\ requests \subseteq {"sns_ledger"}
                  /\ \/ err = [kind |-> "NoRev", dep |-> k]
                     \/ err.dep = "sns_ledger"

C6_Witness ==
    /\ tpc = "done"
    /\ revisions["ledger"] = "norev"
    /\ err = [kind |-> "NoRev", dep |-> "ledger"]
    /\ requests = {"sns_ledger"}

\* C7 as stated: a unit-only run whose project root exists leaves the cache
\* directory and the published artifact unchanged, and ends having invoked
\* the test process without rebuild check, build or provisioning.
C7_UnitOnlySkipsBuildAndProvisioning ==
    [][(cmd' = "test" /\ args'.unit_only /\ DirExists(PROJECT_DIR)) =>
          /\ UNCHANGED <<cacheDir, cache, published>>
          /\ tpc' = "done" =>
                /\ testCode' # -1
                /\ log' = <<"exec">>
                /\ needed' = "na"
                /\ bpc' = "idle"
                /\ requests' = {}]_vars

\* C8: in a run without unit-only the test process is invoked only after the
\* rebuild check, the build if one was started, and the provisioning of the
\* three dependencies succeeded in that order; after a failed build or
\* provisioning step the tests are not invoked and the command exits 1.
C8_TestsOnlyAfterPreTestSuccess ==
    /\ (cmd = "test" /\ ~args.unit_only /\ (tpc = "exec" \/ testCode # -1)) =>
          /\ \E b \in {<<>>, <<"build">>}, e \in {<<>>, <<"exec">>} :
                /\ log = <<"check">> \o b
                            \o <<"mainnet", "sns_ledger", "ledger", "kong_backend">> \o e
                /\ (e = <<>>) <=> (tpc = "exec")
                /\ (b # <<>>) <=> (args.force_rebuild \/ needed = "yes")
                /\ b # <<>> => bpc = "done" /\ bexit = 0
          /\ provLog # <<>> /\ provLog[Len(provLog)] = "ok"
          /\ \A d \in Deps : cache[d] # "absent"
    /\ (cmd = "test" /\ ~args.unit_only /\ tpc = "done" /\ err.kind # "none") =>
          testCode = -1 /\ texit = 1
    /\ (cmd = "test" /\ bpc = "done" /\ bexit # 0 /\ tpc # "build") =>
          tpc = "done" /\ testCode = -1 /\ texit = 1

C8_Witness ==
    /\ cmd = "test"
    /\ testCode # -1
    /\ log = <<"check", "build", "mainnet", "sns_ledger", "ledger", "kong_backend", "exec">>

\* C9 as stated: in every finished run without unit-only the build pipeline
\* was run exactly when rebuild-force was set or needs_rebuild returned true;
\* with rebuild-force the build runs whatever needs_rebuild would return.
C9_BuildIffForcedOrStale ==
    (cmd = "test" /\ ~args.unit_only /\ tpc = "done") =>
        (InLog("build") <=> (args.force_rebuild \/ needed = "yes"))

\* C9 amended: in a run without unit-only that reaches the rebuild decision
\* (paths resolved, project directory and build script present), the build
\* pipeline is started exactly when rebuild-force is set or needs_rebuild
\* holds of the source directory and the published artifact; with
\* rebuild-force the build runs without needs_rebuild deciding.
C9_BuildTrigger ==
    /\ (JustDecided /\ ~args.unit_only) =>
          ((tpc = "build" /\ bpc = "start")
              <=> (args.force_rebuild \/ needs_rebuild(src, published[PROJECT_DIR])))
    /\ (cmd = "test" /\ tpc = "done" /\ InLog("check") /\ err.kind # "NoBuildScript") =>
          (InLog("build") <=> (args.force_rebuild \/ needed = "yes"))
    /\ (cmd = "test" /\ bpc # "idle") => InLog("check")

C9_Witness ==
    /\ JustDecided
    /\ args.force_rebuild
    /\ ~needs_rebuild(src, published[PROJECT_DIR])
    /\ bpc = "start"

\* files of the source directory the rebuild decision looks at
Watched == {f \in SrcFiles : f.ext = "rs" \/ (f.name = "Cargo" /\ f.ext = "toml")}

\* C10: needs_rebuild returns true exactly when the target does not exist or
\* some existing watched file is strictly newer than the target.
C10_NeedsRebuildExact ==
    (JustDecided /\ needed # "na") =>
        LET target == published[PROJECT_DIR] IN
        (needed = "yes") <=>
            \/ ~target.exists
            \/ \E f \in Watched : src[f] # -1 /\ src[f] > target.mtime

C10_Witness ==
    /\ JustDecided
    /\ needed = "no"
    /\ published[PROJECT_DIR].exists
    /\ \E f \in Watched : src[f] = published[PROJECT_DIR].mtime
    /\ \E f \in SrcFiles \ Watched : src[f] > published[PROJECT_DIR].mtime

\* the stages of a complete build, in the order of build.py main
AllStages == <<"compile", "validate", "metadata", "optimize", "compress", "cleanup">>

AllOk(r) == \A i \in 1 .. Len(r) : r[i] = "ok"

\* C11: whenever the build command has completed with status 0, the published
\* archive exists in full at its path and the augmented intermediate file does
\* not exist, whatever was at either path when the run started.
C11_SuccessfulBuildPostcondition ==
    (bpc = "done" /\ bexit = 0) =>
        /\ published["home"].exists
        /\ published["home"].whole
        /\ ~augmented

C11_Witness ==
    /\ bpc = "done"
    /\ bexit = 0
    /\ aug0
    /\ pub0.exists
    /\ ~augmented

\* C12: the build command exits 0 exactly when the project-root check and all
\* six stages succeeded, and exits 1 whenever a path was found missing, an
\* external process failed, or compression or cleanup raised.
C12_BuildExitStatus ==
    bpc = "done" =>
        /\ bexit \in {0, 1}
        /\ (bexit = 0) <=> (homeExists /\ stages = AllStages /\ AllOk(results))
        /\ ~homeExists => bexit = 1
        /\ ~AllOk(results) => bexit = 1
        /\ berr \in {"NoProjectDir", "ProcessFailure", "NoWasmDir", "NoCandid", "NoRawWasm",
                     "CompressionFailure", "CleanupFailure"} => bexit = 1

C12_Witness ==
    /\ bpc = "done"
    /\ berr = "CompressionFailure"
    /\ stages = <<"compile", "validate", "metadata", "optimize", "compress">>
    /\ bexit = 1

\* C13: once download_kong_backend has been entered, a manifest without the
\* dependencies section, without the kong_backend entry, without version or
\* without url_template ends the run with the error kind of exactly that
\* element; the step gets past the manifest only when all are present, and a
\* request for kong_backend is made only then.
C13_ManifestValidation ==
    (cmd = "test" /\ InLog("kong_backend")) =>
        /\ config = "nodeps" =>
              tpc = "done" /\ err = [kind |-> "MissingDependencies", dep |-> "kong_backend"]
        /\ config = "nokong" =>
              tpc = "done" /\ err = [kind |-> "MissingKongBackend", dep |-> "kong_backend"]
        /\ config = "noversion" =>
              tpc = "done" /\ err = [kind |-> "MissingVersion", dep |-> "kong_backend"]
        /\ config = "nourl" =>
              tpc = "done" /\ err = [kind |-> "MissingUrlTemplate", dep |-> "kong_backend"]
        /\ config \in {"nodeps", "nokong", "noversion", "nourl"} =>
              /\ "kong_backend" \notin requests
              /\ texit = 1
              /\ testCode = -1
        /\ (tpc = "exec" \/ testCode # -1 \/ "kong_backend" \in requests) =>
              config \in {"ok", "badtemplate"}
        /\ config = "ok" =>
              err.kind \notin {"MissingDependencies", "MissingKongBackend", "MissingVersion",
                               "MissingUrlTemplate", "ConfigNotFound", "ConfigUnreadable"}

C13_Witness ==
    /\ cmd = "test"
    /\ InLog("kong_backend")
    /\ config = "nourl"
    /\ err = [kind |-> "MissingUrlTemplate", dep |-> "kong_backend"]
    /\ fetches["sns_ledger"] = 1
    /\ fetches["kong_backend"] = 0

\* C14 as stated: when a successful build compressed the same input bytes as
\* the build that wrote the archive found at the start, the new archive is
\* byte-identical to the old one, header MTIME field included.
C14_ReproducibleCompression ==
    (/\ bpc = "done"
     /\ bexit = 0
     /\ pub0.exists
     /\ pub0.whole
     /\ pub0.payload = published["home"].payload) =>
        published["home"].hdr = pub0.hdr

\* C15: the stages started in a run are a prefix of the fixed order, each
\* started once; every stage before the last started one succeeded; the
\* build is positioned at the stage after the last successful one; a failed
\* stage is the last one and the build exits 1 with it.
C15_FailFastStageOrder ==
    /\ Len(stages) <= Len(AllStages)
    /\ stages = SubSeq(AllStages, 1, Len(stages))
    /\ Len(results) = Len(stages)
    /\ \A i \in 1 .. Len(results) - 1 : results[i] = "ok"
    /\ (\E i \in 1 .. Len(AllStages) : bpc = AllStages[i]) =>
          /\ AllOk(results)
          /\ bpc = AllStages[Len(stages) + 1]
    /\ ~AllOk(results) => bpc = "done" /\ bexit = 1

C15_Witness ==
    /\ bpc = "done"
    /\ stages = <<"compile", "validate", "metadata">>
    /\ results = <<"ok", "ok", "fail">>

\* C16: a build whose compile succeeded and whose output validation failed
\* reports the first missing item in the order directory, interface file, raw
\* artifact, exits 1, and has neither run the post-processing tool nor
\* touched the augmented or the published file; the post-processing tool is
\* started only when all three are present.
C16_OutputValidation ==
    /\ (bpc = "done" /\ stages = <<"compile", "validate">> /\ results = <<"ok", "fail">>) =>
          /\ ~wasmDir \/ ~candid \/ ~raw
          /\ ~wasmDir => berr = "NoWasmDir"
          /\ (wasmDir /\ ~candid) => berr = "NoCandid"
          /\ (wasmDir /\ candid /\ ~raw) => berr = "NoRawWasm"
          /\ bexit = 1
          /\ augmented = aug0
          /\ published["home"] = pub0
    /\ Len(stages) >= 3 => wasmDir /\ candid /\ raw

C16_Witness ==
    /\ bpc = "done"
    /\ stages = <<"compile", "validate">>
    /\ berr = "NoWasmDir"
    /\ ~wasmDir
    /\ ~candid

\* C17 as stated: when the test process of a run without unit-only is
\* invoked, the published artifact exists at the path of the layout the run
\* resolved and every dependency file exists in the cache.
C17_BoundPathsExist ==
    (cmd = "test" /\ ~args.unit_only /\ testCode # -1) =>
        /\ published[PROJECT_DIR].exists
        /\ \A d \in Deps : cache[d] # "absent"

\* C18: a file that exists at a cache destination is changed only by the
\* transfer that is writing it; no step of a command removes or replaces it,
\* and a request is issued only for a dependency whose file is absent.
C18_CacheWriteOnce ==
    [][\A d \in Deps :
          /\ (cache[d] # "absent" /\ ~(cmd = "test" /\ xfer /\ tpc = d)) => cache'[d] = cache[d]
          /\ cache[d] # "absent" => cache'[d] # "absent"
          /\ fetches'[d] # fetches[d] => cache[d] = "absent"]_vars

C18_Witness ==
    /\ cmd = "test"
    /\ provLog = <<"fail">>
    /\ requests = {"ledger"}
    /\ cache["sns_ledger"] = "complete"
    /\ fetches["sns_ledger"] = 1
    /\ fetches["ledger"] = 2

\* C19: without a lock the existence test is all the second invocation looks
\* at: it requests a dependency only when no file is at the destination, and
\* it skips a dependency whenever a file is there, also when that file is
\* still being written by the transfer of the first invocation.
C19_SkipsOnPresenceAlone ==
    [][\A d \in Deps :
          /\ d \in peer'.requests \ peer.requests => cache[d] = "absent"
          /\ d \in peer'.skipped \ peer.skipped => cache[d] # "absent" /\ cache'[d] = cache[d]
          /\ d \in peer'.torn \ peer.torn =>
                /\ d \in peer'.skipped \ peer.skipped
                /\ cmd = "test" /\ xfer /\ tpc = d
                /\ cache[d] = "partial"]_vars

\* the second invocation has run the tests although a file it skipped is still
\* being written by the first one
C19_Witness ==
    /\ peer.pc = "done"
    /\ peer.testCode # -1
    /\ \E d \in peer.torn :
          /\ d \notin peer.requests
          /\ cache[d] = "partial"
          /\ cmd = "test" /\ xfer /\ tpc = d

=============================================================================
